---- MODULE Spec2Model ----
(***************************************************************************)
(* zfspy: decoding of a vdev label (spa.py) and bit-field extraction       *)
(* (util.py).                                                              *)
(*                                                                         *)
(* Three specifications share the variables below:                         *)
(*   Spec      one call VDevLabel(data): nvlist unpack, ring scan,         *)
(*             re-slice of the winning slot, BlockPtr decode;              *)
(*   SpecLoad  SPA.vdev_load: four VDevLabel decodes in sequence;          *)
(*   SpecBits  one call get_bits(i, start, len).                           *)
(*                                                                         *)
(* A 64-bit word is the set of the positions (0 = least significant) of    *)
(* its one bits, so that shifts by 63 and masks of 64 or more bits are     *)
(* computed exactly.  Byte ranges are records [lo, hi) of offsets.         *)
(***************************************************************************)
EXTENDS Integers, Sequences, FiniteSets, TLC

\* ------------------------------------------------------------- bounds
\* Slots of the checkpoint ring handed to the label decoder (a full label
\* has 128 of them).
NSlots == 4
\* get_bits is called with start and len drawn from -1 .. MaxShift.
MaxShift == 66
\* Size of the device vdev_load reads, in KiB.
DevKiB == 4096

\* ------------------------------------------------- program constants
UBERBLOCK_SHIFT == 10
UBERBLOCK_SIZE == 2 ^ UBERBLOCK_SHIFT
SPA_MINBLOCKSHIFT == 9
\* 0x00bab10c and 0x0cb1ba00
UB_MAGIC == 12235020
UB_MAGIC_SWAPPED == 212974080
\* data[40: 168]
ROOTBP_FROM == 40
ROOTBP_TO == 168
\* dva_size, and dva_size * 3: the start of the tail handed to the
\* StreamUnpacker
dva_size == 16
DVA_BYTES == dva_size * 3
\* f.read(256 << 10) and f.seek(-(512 << 10), os.SEEK_END), in KiB
LABEL_KIB == 256
TAIL_KIB == 512

DMU_OBJTYPE ==
    << "DMU_OT_NONE", "DMU_OT_OBJECT_DIRECTORY", "DMU_OT_OBJECT_ARRAY",
       "DMU_OT_PACKED_NVLIST", "DMU_OT_NVLIST_SIZE", "DMU_OT_BPLIST",
       "DMU_OT_BPLIST_HDR", "DMU_OT_SPACE_MAP_HEADER", "DMU_OT_SPACE_MAP",
       "DMU_OT_INTENT_LOG", "DMU_OT_DNODE", "DMU_OT_OBJSET",
       "DMU_OT_DSL_DATASET", "DMU_OT_DSL_DATASET_CHILD_MAP",
       "DMU_OT_OBJSET_SNAP_MAP", "DMU_OT_DSL_PROPS", "DMU_OT_DSL_OBJSET",
       "DMU_OT_ZNODE", "DMU_OT_ACL", "DMU_OT_PLAIN_FILE_CONTENTS",
       "DMU_OT_DIRECTORY_CONTENTS", "DMU_OT_MASTER_NODE",
       "DMU_OT_DELETE_QUEUE", "DMU_OT_ZVOL", "DMU_OT_ZVOL_PROP" >>

CKSUM_NAMES ==
    << "unknown", "on", "off", "label", "gang header", "zilog",
       "fletcher2", "fletcher4", "SHA-256" >>

COMP_NAMES == << "unknown", "on", "off", "lzjb" >>

\* ------------------------------------------------------ words as bits
\* The bits of a small natural number, and back.
BitsOf(n) == { b \in 0..30 : (n \div (2 ^ b)) % 2 = 1 }

RECURSIVE NumOf(_)
NumOf(S) ==
    IF S = {} THEN 0
    ELSE LET b == CHOOSE x \in S : TRUE
         IN  (2 ^ b) + NumOf(S \ {b})

\* i >> n, i << n, (1 << len) - 1 and & on words.
ShiftRight(i, n) == { b - n : b \in { x \in i : x >= n } }
ShiftLeft(i, n) == { b + n : b \in i }
LowMaskOffByOne(len) == 0 .. len
LowMask(len) == 0 .. (len - 1)
BitAnd(a, b) == a \cap b

\* util.get_bits: Python raises ValueError("negative shift count") for a
\* negative start (i >> start) or a negative len (1 << len); any other
\* start and len give a value.
get_bits(i, start, len) ==
    IF start < 0 \/ len < 0
    THEN [err |-> "ValueError", val |-> {}]
    ELSE [err |-> "none", val |-> BitAnd(ShiftRight(i, start), LowMask(len))]

\* ------------------------------------------------------------ inputs
\* Checkpoint headers as UberBlock.__init__ unpacks them (the fields the
\* selection reads).  The last one is not a checkpoint: its magic is
\* neither constant.
SlotSamples ==
    { [ub_magic |-> UB_MAGIC,         ub_txg |-> 5, ub_timestamp |-> 100],
      [ub_magic |-> UB_MAGIC,         ub_txg |-> 5, ub_timestamp |-> 50],
      [ub_magic |-> UB_MAGIC_SWAPPED, ub_txg |-> 7, ub_timestamp |-> 10],
      [ub_magic |-> UB_MAGIC_SWAPPED, ub_txg |-> 3, ub_timestamp |-> 150],
      [ub_magic |-> 0,                ub_txg |-> 9, ub_timestamp |-> 200] }

Rings == [1..NSlots -> SlotSamples]

\* The rings vdev_load reads: every slot is the first sample or the last.
LoadSlotSamples ==
    { s \in SlotSamples : s.ub_timestamp \in {100, 200} }

LoadRings == [1..NSlots -> LoadSlotSamples]

\* The packed metadata word of a block pointer, built from its raw fields.
WordOf(f) ==
    UNION { ShiftLeft(BitsOf(f.lsize), 0),  ShiftLeft(BitsOf(f.psize), 16),
            ShiftLeft(BitsOf(f.comp), 32),  ShiftLeft(BitsOf(f.cksum), 40),
            ShiftLeft(BitsOf(f.type), 48),  ShiftLeft(BitsOf(f.level), 56),
            ShiftLeft(BitsOf(f.pad), 61),   ShiftLeft(BitsOf(f.e), 63) }

Raw(ls, ps, co, ck, ty, lv, pd, en) ==
    [lsize |-> ls, psize |-> ps, comp |-> co, cksum |-> ck, type |-> ty,
     level |-> lv, pad |-> pd, e |-> en]

BPFieldSamples ==
    { Raw(0, 0, 0, 0, 0, 0, 0, 0),
      Raw(65535, 1, 3, 8, 24, 31, 3, 1),
      Raw(7, 7, 2, 7, 23, 1, 0, 1),
      Raw(0, 0, 4, 0, 0, 0, 0, 0),
      Raw(0, 0, 200, 8, 24, 0, 0, 1),
      Raw(0, 0, 3, 9, 0, 0, 0, 0),
      Raw(0, 0, 0, 255, 24, 0, 0, 0),
      Raw(0, 0, 3, 8, 25, 0, 0, 0),
      Raw(1, 0, 0, 0, 255, 0, 0, 1) }

BPWords == { WordOf(f) : f \in BPFieldSamples }

\* ------------------------------------------------ pieces of the decode
\* ub_magic == 0x00bab10c or ub_magic == 0x0cb1ba00
ValidMagicAny(ub) == TRUE
ValidMagic(ub) == ub.ub_magic = UB_MAGIC \/ ub.ub_magic = UB_MAGIC_SWAPPED

\* ub = UberBlock(data); ub.index = i
UberBlockIndexAfterIncrement(slot, idx) ==
    [ub_magic |-> slot.ub_magic, ub_txg |-> slot.ub_txg,
     ub_timestamp |-> slot.ub_timestamp, index |-> idx + 1]
UberBlock(slot, idx) ==
    [ub_magic |-> slot.ub_magic, ub_txg |-> slot.ub_txg,
     ub_timestamp |-> slot.ub_timestamp, index |-> idx]

\* ub.ub_txg >= ubbest.ub_txg and ub.ub_timestamp > ubbest.ub_timestamp
ReplacesTimestampGeq(ub, best) ==
    ub.ub_txg >= best.ub_txg /\ ub.ub_timestamp >= best.ub_timestamp
ReplacesEither(ub, best) ==
    ub.ub_txg >= best.ub_txg \/ ub.ub_timestamp > best.ub_timestamp
Replaces(ub, best) ==
    ub.ub_txg >= best.ub_txg /\ ub.ub_timestamp > best.ub_timestamp

\* The body of the loop after ub is built: the new value of ubbest.
Select(best, ub) ==
    IF ValidMagic(ub)
    THEN LET first == IF best = <<>> THEN <<ub>> ELSE best
         IN  IF Replaces(ub, first[1]) THEN <<ub>> ELSE first
    ELSE best

\* get_record(data, size, index): the index-th record of size bytes.
get_record(size, index) == [lo |-> index * size, hi |-> (index + 1) * size]

\* data[from: to] of a byte range (Python clips the slice to the data).
Slice(r, from, to) ==
    LET a == IF r.lo + from < r.hi THEN r.lo + from ELSE r.hi
        b == IF r.lo + to < r.hi THEN r.lo + to ELSE r.hi
    IN  [lo |-> a, hi |-> b]

\* table[idx] of a Python list: IndexError outside -len .. len - 1.
LookupWrapped(table, idx) ==
    [err |-> "none", val |-> table[(idx % Len(table)) + 1]]
Lookup(table, idx) ==
    IF idx >= Len(table) \/ idx < -Len(table)
    THEN [err |-> "IndexError", val |-> ""]
    ELSE IF idx >= 0
         THEN [err |-> "none", val |-> table[idx + 1]]
         ELSE [err |-> "none", val |-> table[Len(table) + idx + 1]]

\* The StreamUnpacker: uint64() consumes 8 bytes, rewind(delta) moves the
\* cursor by the signed delta.
su_uint64(pos) == pos + 8
su_rewind(pos, delta) == pos + delta

\* Lines 119-133 of BlockPtr.__init__ on the metadata word w: the fields
\* read with get_bits, then the three table lookups in the order the code
\* makes them.
BlockPtrFields(w) ==
    LET comp == NumOf(get_bits(w, 32, 8).val)
        cksum == NumOf(get_bits(w, 40, 8).val)
        type == NumOf(get_bits(w, 48, 8).val)
        ck == Lookup(CKSUM_NAMES, cksum)
        co == Lookup(COMP_NAMES, comp)
        ty == Lookup(DMU_OBJTYPE, type)
    IN  [lsize |-> (NumOf(get_bits(w, 0, 16).val) + 1) * (2 ^ SPA_MINBLOCKSHIFT),
         psize |-> (NumOf(get_bits(w, 16, 16).val) + 1) * (2 ^ SPA_MINBLOCKSHIFT),
         level |-> NumOf(get_bits(w, 56, 5).val),
         endian |-> IF get_bits(w, 63, 1).val # {} THEN "<" ELSE ">",
         cksum |-> ck.val, comp |-> co.val, type |-> ty.val,
         err |-> IF ck.err # "none" THEN ck.err
                 ELSE IF co.err # "none" THEN co.err ELSE ty.err]

\* ------------------------------------------------------------- state
VARIABLES
    pc,          \* position of the label decode
    err,         \* the exception that ended the decode, "none" otherwise
    ring,        \* ub_array: the decoded headers of the ring's slots
    i,           \* the counter i of _from_data
    k,           \* records taken from split_records so far
    ubbest,      \* <<>> for None, else <<the running best>>
    accepted,    \* ring indexes of the slots that became ubbest
    bpslice,     \* <<>> or <<the byte range of the ring given to BlockPtr>>
    bpword,      \* <<>> or <<the metadata word the BlockPtr decode read>>
    bp,          \* <<>> or <<the fields BlockPtr has decoded>>
    su_pos,      \* cursor of the StreamUnpacker over the 80-byte tail
    reads,       \* block-pointer offsets of the reads after the rewind
    self_ubbest, \* the label's ubbest attribute, <<>> while unset
    loadpc,      \* position of vdev_load, "off" when it is not running
    l,           \* the list l of vdev_load
    fpos,        \* file position of f, in KiB
    regions,     \* file offsets (KiB) of the regions read so far
    gb_pc,       \* position of the get_bits call, "off" when not running
    gb_in,       \* its arguments
    gb_out       \* its outcome

labelVars == << pc, err, ring, i, k, ubbest, accepted, bpslice, bpword, bp,
                su_pos, reads, self_ubbest >>
loadVars == << loadpc, l, fpos, regions >>
bitsVars == << gb_pc, gb_in, gb_out >>
vars == << labelVars, loadVars, bitsVars >>
\* ------------------------------------------------- VDevLabel._from_data
LabelIdle ==
    /\ pc = "idle" /\ err = "none" /\ ring = <<>> /\ i = 0 /\ k = 0
    /\ ubbest = <<>> /\ accepted = {} /\ bpslice = <<>> /\ bpword = <<>>
    /\ bp = <<>> /\ su_pos = 0 /\ reads = <<>> /\ self_ubbest = <<>>

\* VDevLabel(data) is entered with the ring r of data: __init__ sets the
\* attributes, _from_data starts.
LabelStart(r) ==
    /\ pc' = "nvlist" /\ err' = "none" /\ ring' = r /\ i' = 0 /\ k' = 0
    /\ ubbest' = <<>> /\ accepted' = {} /\ bpslice' = <<>> /\ bpword' = <<>>
    /\ bp' = <<>> /\ su_pos' = 0 /\ reads' = <<>> /\ self_ubbest' = <<>>

\* Lines 194-199: the boot header is sliced and the property list is
\* unpacked by NVPair, which either returns or raises; then ubbest = None,
\* i = 0.
UnpackNvlist ==
    /\ pc = "nvlist"
    /\ \E ok \in BOOLEAN :
         IF ok
         THEN /\ pc' = "scan"
              /\ err' = err
         ELSE /\ pc' = "failed"
              /\ err' = "NVPairError"
    /\ UNCHANGED << ring, i, k, ubbest, accepted, bpslice, bpword, bp,
                    su_pos, reads, self_ubbest, loadVars, bitsVars >>

\* Lines 201-209: one iteration of the loop over split_records.
ScanSlot ==
    /\ pc = "scan"
    /\ k < Len(ring)
    /\ LET ub == UberBlock(ring[k + 1], i)
           best == Select(ubbest, ub)
       IN  /\ ubbest' = best
           /\ accepted' = IF best # ubbest THEN accepted \cup {ub.index}
                          ELSE accepted
    /\ i' = i + 1
    /\ k' = k + 1
    /\ UNCHANGED << pc, err, ring, bpslice, bpword, bp, su_pos, reads,
                    self_ubbest, loadVars, bitsVars >>

\* Lines 210-211 up to the call of BlockPtr: ubbest.index raises
\* AttributeError when ubbest is None; otherwise the record of the winning
\* slot is fetched again and sliced.
EndScan ==
    /\ pc = "scan"
    /\ k = Len(ring)
    /\ IF ubbest = <<>>
       THEN /\ pc' = "failed"
            /\ err' = "AttributeError"
            /\ bpslice' = bpslice
       ELSE /\ pc' = "bp_head"
            /\ err' = err
            /\ bpslice' = << Slice(get_record(UBERBLOCK_SIZE, ubbest[1].index),
                                   ROOTBP_FROM, ROOTBP_TO) >>
    /\ UNCHANGED << ring, i, k, ubbest, accepted, bpword, bp, su_pos, reads,
                    self_ubbest, loadVars, bitsVars >>

\* BlockPtr.__init__ lines 113-133: the three DVAs are parsed from the
\* first 48 bytes, the StreamUnpacker is placed on the rest, the metadata
\* word w is read and its fields decoded; a table index outside its table
\* raises IndexError.
BlockPtrHead ==
    /\ pc = "bp_head"
    /\ \E w \in BPWords :
         LET f == BlockPtrFields(w)
         IN  /\ bpword' = <<w>>
             /\ su_pos' = su_uint64(0)
             /\ IF f.err # "none"
                THEN /\ pc' = "failed"
                     /\ err' = f.err
                     /\ bp' = bp
                ELSE /\ pc' = "bp_rewind"
                     /\ err' = err
                     /\ bp' = << [lsize |-> f.lsize, psize |-> f.psize,
                                  comp |-> f.comp, cksum |-> f.cksum,
                                  type |-> f.type, level |-> f.level,
                                  endian |-> f.endian] >>
    /\ UNCHANGED << ring, i, k, ubbest, accepted, bpslice, reads,
                    self_ubbest, loadVars, bitsVars >>

\* Line 134: su.rewind(-24)
BlockPtrRewind ==
    /\ pc = "bp_rewind"
    /\ su_pos' = su_rewind(su_pos, -24)
    /\ pc' = "bp_read"
    /\ UNCHANGED << err, ring, i, k, ubbest, accepted, bpslice, bpword, bp,
                    reads, self_ubbest, loadVars, bitsVars >>

\* Lines 135-138, one uint64 at a time: birth_txg, fill_count and the four
\* checksum words.  A read that would pass the end of the tail fails; what
\* a read before the start of the tail does is not fixed by the cursor's
\* contract, so it either fails or returns.  After the sixth read BlockPtr
\* returns and lines 211-212 store it and set self.ubbest.
BlockPtrRead ==
    /\ pc = "bp_read"
    /\ LET tail == (bpslice[1].hi - bpslice[1].lo) - DVA_BYTES
           canReturn == su_pos + 8 <= tail
           canFail == su_pos < 0 \/ su_pos + 8 > tail
       IN  \/ /\ canReturn
              /\ reads' = Append(reads, DVA_BYTES + su_pos)
              /\ su_pos' = su_uint64(su_pos)
              /\ err' = err
              /\ IF Len(reads) = 5
                 THEN /\ pc' = "done"
                      /\ self_ubbest' = ubbest
                 ELSE /\ pc' = pc
                      /\ self_ubbest' = self_ubbest
           \/ /\ canFail
              /\ pc' = "failed"
              /\ err' = "TruncatedInputError"
              /\ UNCHANGED << reads, su_pos, self_ubbest >>
    /\ UNCHANGED << ring, i, k, ubbest, accepted, bpslice, bpword, bp,
                    loadVars, bitsVars >>

LabelStep ==
    \/ UnpackNvlist
    \/ ScanSlot
    \/ EndScan
    \/ BlockPtrHead
    \/ BlockPtrRewind
    \/ BlockPtrRead

\* ---------------------------------------------------------- vdev_load
\* l.append(VDevLabel(f.read(256 << 10))), up to the entry of the decode;
\* before the third read f.seek(-(512 << 10), os.SEEK_END).
LoadRead ==
    /\ loadpc = "reading"
    /\ pc = "idle"
    /\ Len(l) < 4
    /\ LET at == IF Len(l) = 2 THEN DevKiB - TAIL_KIB ELSE fpos
       IN  /\ regions' = Append(regions, at)
           /\ fpos' = at + LABEL_KIB
    /\ \E r \in LoadRings : LabelStart(r)
    /\ UNCHANGED << loadpc, l, bitsVars >>

\* The decode returned: the label is appended to l.
LoadAppend ==
    /\ loadpc = "reading"
    /\ pc = "done"
    /\ l' = Append(l, self_ubbest[1])
    /\ pc' = "idle"
    /\ UNCHANGED << err, ring, i, k, ubbest, accepted, bpslice, bpword, bp,
                    su_pos, reads, self_ubbest, loadpc, fpos, regions,
                    bitsVars >>

\* The decode raised: nothing in vdev_load catches it, so the exception
\* leaves vdev_load; l is dropped with the frame and f is never closed.
LoadRaise ==
    /\ loadpc = "reading"
    /\ pc = "failed"
    /\ loadpc' = "raised"
    /\ UNCHANGED << labelVars, l, fpos, regions, bitsVars >>

\* f.close(); return l
LoadReturn ==
    /\ loadpc = "reading"
    /\ pc = "idle"
    /\ Len(l) = 4
    /\ loadpc' = "returned"
    /\ UNCHANGED << labelVars, l, fpos, regions, bitsVars >>

\* ----------------------------------------------------------- get_bits
ValueSamples ==
    { {}, {0}, {63}, 0..63, {0, 2, 3, 5, 11, 17}, {1, 31, 32, 62, 63} }

GetBitsCall ==
    /\ gb_pc = "call"
    /\ LET r == get_bits(gb_in.i, gb_in.start, gb_in.len)
       IN  /\ gb_out' = r
           /\ gb_pc' = IF r.err = "none" THEN "returned" ELSE "raised"
    /\ UNCHANGED << gb_in, labelVars, loadVars >>

\* ----------------------------------------------------- specifications
LoadOff == loadpc = "off" /\ l = <<>> /\ fpos = 0 /\ regions = <<>>

BitsOff ==
    /\ gb_pc = "off"
    /\ gb_in = [i |-> {}, start |-> 0, len |-> 0]
    /\ gb_out = [err |-> "none", val |-> {}]

\* VDevLabel(data) called on a label whose ring is any ring of Rings.
Init ==
    /\ pc = "nvlist" /\ err = "none" /\ ring \in Rings /\ i = 0 /\ k = 0
    /\ ubbest = <<>> /\ accepted = {} /\ bpslice = <<>> /\ bpword = <<>>
    /\ bp = <<>> /\ su_pos = 0 /\ reads = <<>> /\ self_ubbest = <<>>
    /\ LoadOff
    /\ BitsOff

Next == LabelStep

Spec == Init /\ [][Next]_vars

\* vdev_load after f = open(dev, 'rb'); l = [].
InitLoad ==
    /\ LabelIdle
    /\ loadpc = "reading" /\ l = <<>> /\ fpos = 0 /\ regions = <<>>
    /\ BitsOff

NextLoad ==
    \/ LoadRead
    \/ LabelStep
    \/ LoadAppend
    \/ LoadRaise
    \/ LoadReturn

SpecLoad == InitLoad /\ [][NextLoad]_vars

\* get_bits called with any sample word and any start and len.
InitBits ==
    /\ LabelIdle
    /\ LoadOff
    /\ gb_pc = "call"
    /\ gb_in \in [i : ValueSamples, start : -1..MaxShift, len : -1..MaxShift]
    /\ gb_out = [err |-> "none", val |-> {}]

NextBits == GetBitsCall

SpecBits == InitBits /\ [][NextBits]_vars
\* ----------------------------------------------------------- properties
\* The two magic numbers a checkpoint may carry.
MagicOK(m) == m \in {UB_MAGIC, UB_MAGIC_SWAPPED}

ValidPositions(upto) == { j \in 1..upto : MagicOK(ring[j].ub_magic) }

SameHeader(ub, slot) ==
    /\ ub.ub_magic = slot.ub_magic
    /\ ub.ub_txg = slot.ub_txg
    /\ ub.ub_timestamp = slot.ub_timestamp

IsBest(txg, ts) ==
    /\ ubbest # <<>>
    /\ ubbest[1].ub_txg = txg
    /\ ubbest[1].ub_timestamp = ts

ScanOver == pc \in {"bp_head", "bp_rewind", "bp_read", "done"}
            \/ (pc = "failed" /\ k = Len(ring))

\* C1: the uberblock the scan ends with has a valid magic and the greatest
\* txg of all valid-magic slots of the ring; on a ring that starts
\* (5, 100), (5, 50), (7, 10) the best is (5, 100) after two slots and
\* (7, 10) after three.
C1_SelectsGreatestTxg ==
    /\ (ScanOver /\ ubbest # <<>>) =>
          /\ MagicOK(ubbest[1].ub_magic)
          /\ \A j \in ValidPositions(Len(ring)) :
                ring[j].ub_txg <= ubbest[1].ub_txg
    /\ ( /\ pc = "scan"
         /\ MagicOK(ring[1].ub_magic)
         /\ ring[1].ub_txg = 5 /\ ring[1].ub_timestamp = 100
         /\ MagicOK(ring[2].ub_magic)
         /\ ring[2].ub_txg = 5 /\ ring[2].ub_timestamp = 50
         /\ MagicOK(ring[3].ub_magic)
         /\ ring[3].ub_txg = 7 /\ ring[3].ub_timestamp = 10 ) =>
          /\ k = 2 => IsBest(5, 100)
          /\ k = 3 => IsBest(7, 10)

\* C2: in every step of the scan, a best that exists is replaced by the
\* slot just read exactly when that slot's magic is valid, its txg is >=
\* the best's and its timestamp is > the best's; while no best exists the
\* slot becomes the best exactly when its magic is valid; no other step
\* changes the best.
C2_ReplaceRule ==
    [][ IF pc = "scan" /\ k' = k + 1
        THEN LET s == ring[k + 1]
                 cand == [ub_magic |-> s.ub_magic, ub_txg |-> s.ub_txg,
                          ub_timestamp |-> s.ub_timestamp, index |-> k]
             IN  IF ubbest = <<>>
                 THEN ubbest' = IF MagicOK(s.ub_magic) THEN <<cand>> ELSE <<>>
                 ELSE /\ (ubbest' # ubbest) <=>
                            /\ MagicOK(s.ub_magic)
                            /\ s.ub_txg >= ubbest[1].ub_txg
                            /\ s.ub_timestamp > ubbest[1].ub_timestamp
                      /\ ubbest' # ubbest => ubbest' = <<cand>>
        ELSE ubbest' = ubbest ]_vars

\* A scan in which the best was replaced once and a later valid slot was
\* refused.
C2_Witness ==
    /\ pc = "scan"
    /\ Cardinality(accepted) = 2
    /\ \E j \in ValidPositions(k) : j - 1 \notin accepted /\ j - 1 > ubbest[1].index

\* C3: when every slot of the ring has an invalid magic the decode ends
\* without any failure other than NotFound, the label's active uberblock
\* is absent and no block pointer decode was attempted.
C3_AllInvalidIsNotFound ==
    (ValidPositions(Len(ring)) = {} /\ k = Len(ring) /\ pc # "scan") =>
        /\ err \in {"none", "NotFound"}
        /\ self_ubbest = <<>>
        /\ bpslice = <<>>
        /\ bpword = <<>>

\* C4: the running best, when present, has a valid magic, and reading a
\* slot whose magic is invalid changes neither the best nor the course of
\* the scan (no error is raised).
C4_InvalidMagicSkipped ==
    /\ [](ubbest # <<>> => MagicOK(ubbest[1].ub_magic))
    /\ [][ (pc = "scan" /\ k' = k + 1 /\ ~MagicOK(ring[k + 1].ub_magic)) =>
              (ubbest' = ubbest /\ pc' = "scan" /\ err' = "none") ]_vars

\* An invalid-magic slot has just been read while a best exists.
C4_Witness ==
    /\ pc = "scan"
    /\ k >= 2
    /\ ubbest # <<>>
    /\ ~MagicOK(ring[k].ub_magic)
    /\ ring[k].ub_timestamp > ubbest[1].ub_timestamp
    /\ ring[k].ub_txg > ubbest[1].ub_txg

OutOfTable(f, ntypes) == f.comp >= 4 \/ f.cksum >= 9 \/ f.type >= ntypes

IndexErrorFor(ntypes) ==
    \A f \in BPFieldSamples :
        (bpword = << WordOf(f) >> /\ OutOfTable(f, ntypes)) =>
            /\ pc = "failed"
            /\ err = "IndexError"
            /\ bp = <<>>
            /\ self_ubbest = <<>>

\* C5 as stated: a compression index >= 4, a checksum index >= 9 or an
\* object-type index >= 24 ends the block pointer decode in an error and
\* no block pointer is returned.
C5_IndexErrorFrom24 == IndexErrorFor(24)

\* C5 amended: the same with the object-type bound at 25, the length of
\* DMU_OBJTYPE.
C5_IndexErrorFrom25 == IndexErrorFor(25)

\* The decode of a block pointer whose only bad index is object type 25
\* has failed.
C5_Witness ==
    /\ pc = "failed"
    /\ err = "IndexError"
    /\ bpword = << WordOf(Raw(0, 0, 3, 8, 25, 0, 0, 0)) >>

BitsExpected(v, start, len) == { j \in 0..(len - 1) : (start + j) \in v }

GetBitsReturns ==
    /\ gb_pc = "returned"
    /\ gb_out.err = "none"
    /\ gb_out.val = BitsExpected(gb_in.i, gb_in.start, gb_in.len)
    /\ (gb_in.i \subseteq 0..20 /\ gb_in.start <= 20 /\ gb_in.len <= 20) =>
          NumOf(gb_out.val) =
              (NumOf(gb_in.i) \div (2 ^ gb_in.start)) % (2 ^ gb_in.len)

GetBitsRaises == gb_pc = "raised" /\ gb_out.err # "none"

C7_FailureDoesNotAbort ==
    loadpc \in {"returned", "raised"} =>
        /\ Len(regions) = 4
        /\ loadpc = "returned"

\* C8: once the block pointer decode has been entered, the best's index is
\* the position of the slot its header came from, the bytes handed to
\* BlockPtr are [index*1024 + 40, index*1024 + 168) of the ring, a ring
\* whose only valid slot is at index 3 gives index 3, and the label's
\* uberblock is that best.
C8_RootBpFromWinningSlot ==
    /\ bpslice # <<>> =>
          /\ ubbest # <<>>
          /\ ubbest[1].index \in 0..(Len(ring) - 1)
          /\ SameHeader(ubbest[1], ring[ubbest[1].index + 1])
          /\ bpslice[1] = [lo |-> ubbest[1].index * 1024 + 40,
                           hi |-> ubbest[1].index * 1024 + 168]
          /\ ValidPositions(Len(ring)) = {4} => ubbest[1].index = 3
    /\ pc = "done" => (self_ubbest = ubbest /\ bpslice # <<>>)

\* The label decode is done on a ring whose only valid slot is at index 3.
C8_Witness ==
    /\ pc = "done"
    /\ ValidPositions(Len(ring)) = {4}
    /\ self_ubbest # <<>>
    /\ self_ubbest[1].index = 3
    /\ bpslice = << [lo |-> 3112, hi |-> 3240] >>

\* C9: the cursor stays within [0, 80] of the tail; after the metadata
\* word the reads are at block-pointer offsets 80, 88, 96, 104, 112, 120,
\* and the cursor ends at 80.
C9_CursorInsideTail ==
    /\ su_pos \in 0..80
    /\ \A n \in 1..Len(reads) : reads[n] = 80 + 8 * (n - 1)
    /\ pc = "done" => (su_pos = 80 /\ Len(reads) = 6)

FirstValid == CHOOSE j \in ValidPositions(k) :
                 \A m \in ValidPositions(k) : j <= m

\* C10: a best is never unset, a replacement never lowers its txg and
\* always raises its timestamp; the best has txg and timestamp >= those of
\* the first valid slot, and no slot accepted before it has its timestamp.
C10_BestMonotone ==
    /\ [][ ubbest # <<>> =>
              /\ ubbest' # <<>>
              /\ ubbest' # ubbest =>
                    /\ ubbest'[1].ub_txg >= ubbest[1].ub_txg
                    /\ ubbest'[1].ub_timestamp > ubbest[1].ub_timestamp ]_vars
    /\ [](ubbest # <<>> =>
            /\ ValidPositions(k) # {}
            /\ ubbest[1].ub_txg >= ring[FirstValid].ub_txg
            /\ ubbest[1].ub_timestamp >= ring[FirstValid].ub_timestamp
            /\ ubbest[1].index \in accepted
            /\ \A j \in accepted :
                  ring[j + 1].ub_timestamp = ubbest[1].ub_timestamp =>
                      j >= ubbest[1].index)

\* The scan has ended with a best that replaced the first valid slot.
C10_Witness ==
    /\ ScanOver
    /\ Cardinality(accepted) = 2
    /\ ubbest[1].index # FirstValid - 1
    /\ ubbest[1].ub_timestamp > ring[FirstValid].ub_timestamp
====
